---------------------------- MODULE Spec2Model ----------------------------
(***************************************************************************)
(* Model of kenixi_english_bot: the image pipeline of                      *)
(* src/images_processing.py (ImagesDownloader, ImagesFormatter, example)   *)
(* and its caller in src/main.py (TgBot).                                  *)
(*                                                                         *)
(* One pipeline invocation is followed step by step: fetch_image_urls,     *)
(* the concurrently running download_image tasks under asyncio.gather,     *)
(* the filter of download_images, then make_collage (prepare, one step per *)
(* iteration of the placement loop, rasterisation) and the reply.          *)
(***************************************************************************)
EXTENDS Integers, Sequences, FiniteSets

(***************************************************************************)
(* Bounds of the model and constants of the program.                       *)
(***************************************************************************)
\* largest number of hits the search service answers with in the model
MaxHits == 3
\* largest columns_count make_collage is checked with as a function
MaxColumns == 3
\* longest image list make_collage is checked with as a function
MaxImages == 4
\* ImagesFormatter.__init__: columns_count=4, column_width=300, gap=10
DefaultColumnsCount == 4
DefaultColumnWidth == 300
DefaultGap == 10
\* example(): ImagesFormatter(columns_count=4, column_width=300, gap=16)
ExampleGap == 16
\* fetch_image_urls: `if n > 200`
MaxPerPage == 200
\* download_images / fetch_image_urls: default `n: int = 16`, what the handler passes
DefaultN == 16
\* example(): download_images("cats", 20)
ExampleN == 20
\* download_image: `if resp.status != 200`
StatusOk == 200
\* a status other than 200 (404), for the responses that are no success
StatusBad == StatusOk + 204

\* requested counts n the handler's call of download_images is enumerated over
Counts == {-1, 0, 1, DefaultN, MaxPerPage, MaxPerPage + 1}
\* ImagesFormatter.__init__ parameters make_collage is checked with as a function
ColumnsCounts == 1..MaxColumns
ColumnWidths == {1, 2}
Gaps == {0, 1}
\* (width, height) of the decodable images the model's servers answer with; the
\* last one is resized to height 0 for every column width of the model
ImageSizes == {<<1, 1>>, <<1, 2>>, <<301, 1>>}

VARIABLES
    entry,          \* which __main__ runs: "bot" (main.py) or "example"
                    \* (images_processing.py); "call" when make_collage is called directly
    phase,          \* "built" | "polling" | "shutdown": Application life cycle
    downloader,     \* TgBot.downloader / example's downloader: "None" | "set"
    session,        \* ImagesDownloader.session: "unset" | "open" | "closed"
    opens,          \* number of ClientSession() constructions
    closes,         \* number of session.close() calls
    columns_count,  \* ImagesFormatter.columns_count
    column_width,   \* ImagesFormatter.column_width
    gap,            \* ImagesFormatter.gap
    caller,         \* who runs the current pipeline invocation: "none" | "handler" | "example"
    pc,             \* position of the current invocation
    n,              \* the n of download_images / fetch_image_urls
    error,          \* the exception that ended the invocation, "none" otherwise
    searchCalls,    \* requests issued to the search API in this invocation
    searchStatus,   \* status of the search API response (0: none received)
    urls,           \* the list fetch_image_urls returned
    inflight,       \* indexes (1-based) of the download_image tasks still running
    results,        \* gather's result slots, one per task
    overtaken,      \* history: a task completed while one created before it was running
    fetchesStarted, \* download_image requests issued in this invocation
    requests,       \* per reference of urls: the session.get calls made for it
    images,         \* the list download_images returned
    collageCalls,   \* calls of make_collage in this invocation
    prepared,       \* make_collage: the resized images (their heights)
    heap,           \* make_collage: min_columns_heap, a set of <<height, column index>>
    column_images,  \* make_collage: column index -> sequence of positions in prepared
    placed,         \* make_collage: number of iterations of the placement loop done
    canvas,         \* the image that is encoded and sent
    replies         \* reply_photo calls in this invocation

botVars == <<entry, phase, downloader, session, opens, closes>>
formatterVars == <<columns_count, column_width, gap>>
downloadVars ==
    <<n, searchCalls, searchStatus, urls, inflight, results, overtaken, fetchesStarted,
      requests, images>>
collageVars == <<collageCalls, prepared, heap, column_images, placed, canvas>>
vars == <<botVars, formatterVars, caller, pc, error, downloadVars, collageVars, replies>>

(***************************************************************************)
(* Values.                                                                 *)
(***************************************************************************)
\* the slot of a task that has not completed, and the None of download_image
NoBuffer == [url |-> 0, kind |-> "none", w |-> 0, h |-> 0]
Pending == [st |-> "pending", buf |-> NoBuffer]
NoneResult == [st |-> "none", buf |-> NoBuffer]
RaisedResult == [st |-> "raised", buf |-> NoBuffer]

\* BytesIO(img_bytes) of the body read from `url`
Buffer(url, kind, w, h) == [url |-> url, kind |-> kind, w |-> w, h |-> h]

\* the bodies a server may answer a 200 with: nothing, bytes that are no image, an image
Bodies ==
    {[kind |-> "corrupt", w |-> 0, h |-> 0], [kind |-> "empty", w |-> 0, h |-> 0]}
        \cup {[kind |-> "image", w |-> s[1], h |-> s[2]] : s \in ImageSizes}

NoCanvas ==
    [kind |-> "none", width |-> 0, height |-> 0, column_heights |-> <<>>,
     pastes |-> {}, cursor_y |-> <<>>]
\* Image.open('images_not_found.png'): an asset of the deployment, not of the pipeline
Placeholder ==
    [kind |-> "placeholder", width |-> 0, height |-> 0, column_heights |-> <<>>,
     pastes |-> {}, cursor_y |-> <<>>]

Columns == 0..(columns_count - 1)

RECURSIVE SumSeq(_)
SumSeq(s) == IF s = <<>> THEN 0 ELSE Head(s) + SumSeq(Tail(s))

MaxOf(S) == CHOOSE x \in S : \A y \in S : y <= x
MinOf(S) == CHOOSE x \in S : \A y \in S : x <= y

(***************************************************************************)
(* Initial state: the objects as constructed, nothing started.             *)
(***************************************************************************)
NoInvocation ==
    /\ n = 0
    /\ searchCalls = 0
    /\ searchStatus = 0
    /\ urls = <<>>
    /\ inflight = {}
    /\ results = <<>>
    /\ overtaken = FALSE
    /\ fetchesStarted = 0
    /\ requests = <<>>
    /\ images = <<>>
    /\ collageCalls = 0
    /\ prepared = <<>>
    /\ heap = {}
    /\ column_images = <<>>
    /\ placed = 0
    /\ canvas = NoCanvas
    /\ replies = 0

\* TgBot.__init__ constructs ImagesFormatter() with its defaults, example() with gap=16
Init ==
    /\ entry \in {"bot", "example"}
    /\ phase = "built"
    /\ downloader = "None"
    /\ session = "unset"
    /\ opens = 0
    /\ closes = 0
    /\ columns_count = DefaultColumnsCount
    /\ column_width = DefaultColumnWidth
    /\ gap = IF entry = "bot" THEN DefaultGap ELSE ExampleGap
    /\ caller = "none"
    /\ pc = "idle"
    /\ error = "none"
    /\ NoInvocation

\* the locals of a new invocation
BeginInvocation(who, count) ==
    /\ caller' = who
    /\ pc' = "fetch_image_urls"
    /\ error' = "none"
    /\ n' = count
    /\ searchCalls' = 0
    /\ searchStatus' = 0
    /\ urls' = <<>>
    /\ inflight' = {}
    /\ results' = <<>>
    /\ overtaken' = FALSE
    /\ fetchesStarted' = 0
    /\ requests' = <<>>
    /\ images' = <<>>
    /\ collageCalls' = 0
    /\ prepared' = <<>>
    /\ heap' = {}
    /\ column_images' = <<>>
    /\ placed' = 0
    /\ canvas' = NoCanvas
    /\ replies' = 0

\* an exception leaves the invocation: the frames unwind
Raise(kind) ==
    /\ pc' = "raised"
    /\ error' = kind

(***************************************************************************)
(* TgBot: start, stop, _handle_message (src/main.py).                      *)
(***************************************************************************)
\* ImagesDownloader.__aenter__
AEnter ==
    /\ session' = "open"
    /\ opens' = opens + 1
    /\ closes' = closes

\* ImagesDownloader.__aexit__
AExit ==
    /\ session' = "closed"
    /\ closes' = closes + 1
    /\ opens' = opens

\* post_init -> TgBot.start
Start ==
    /\ entry = "bot"
    /\ phase = "built"
    /\ downloader' = "set"
    /\ AEnter
    /\ phase' = "polling"
    /\ UNCHANGED <<entry, formatterVars, caller, pc, error, downloadVars, collageVars, replies>>

\* stop without `self.downloader = None`: a later stop closes the session again
StopKeepsDownloader ==
    /\ entry = "bot"
    /\ phase \in {"polling", "shutdown"}
    /\ pc \in {"idle", "done", "raised"}
    /\ phase' = "shutdown"
    /\ AExit
    /\ UNCHANGED <<entry, downloader, formatterVars, caller, pc, error, downloadVars,
                   collageVars, replies>>

\* post_shutdown -> TgBot.stop; run after the polling loop has ended, and a no-op
\* when the downloader is already None
Stop ==
    /\ entry = "bot"
    /\ phase \in {"polling", "shutdown"}
    /\ pc \in {"idle", "done", "raised"}
    /\ phase' = "shutdown"
    /\ IF downloader # "None"
       THEN /\ AExit
            /\ downloader' = "None"
       ELSE UNCHANGED <<downloader, session, opens, closes>>
    /\ UNCHANGED <<entry, formatterVars, caller, pc, error, downloadVars, collageVars, replies>>

\* _handle_message up to its call of download_images: the handler passes the default
\* n; the other values of the parameter are enumerated as well
HandleMessage ==
    /\ entry = "bot"
    /\ phase = "polling"
    /\ pc \in {"idle", "done", "raised"}
    /\ \/ BeginInvocation("handler", DefaultN)
       \/ \E count \in Counts \ {DefaultN} : BeginInvocation("handler", count)
    /\ UNCHANGED <<botVars, formatterVars>>

\* example(): `async with ImagesDownloader()` and its call of download_images
ExampleBegin ==
    /\ entry = "example"
    /\ phase = "built"
    /\ pc = "idle"
    /\ downloader' = "set"
    /\ AEnter
    /\ phase' = "polling"
    /\ BeginInvocation("example", ExampleN)
    /\ UNCHANGED <<entry, formatterVars>>

(***************************************************************************)
(* ImagesDownloader (src/images_processing.py).                            *)
(***************************************************************************)
\* the answers of the search service: no answer (transport failure), or a status
\* with a body that is no JSON object with "hits" (hits = -1) or one with k hits
SearchResponses ==
    {[transport |-> FALSE, status |-> s, hits |-> k] :
        s \in {StatusOk, StatusBad}, k \in -1..MaxHits}
        \cup {[transport |-> TRUE, status |-> 0, hits |-> -1]}

\* [hit["previewURL"] for hit in data["hits"]]: the k references, in array order
PreviewUrls(k) == [i \in 1..k |-> i]

\* a count the check lets through where the code refuses it
TooManyOffByOne(count) == count > MaxPerPage + 1

\* fetch_image_urls: `if n > 200`
TooMany(count) == count > MaxPerPage

\* fetch_image_urls: the count check, then one request whose JSON body is read
\* whatever the status
FetchImageUrls ==
    /\ pc = "fetch_image_urls"
    /\ \/ /\ TooMany(n)
          /\ Raise("TooManyRequested")
          /\ UNCHANGED <<searchCalls, searchStatus, urls>>
       \/ /\ ~TooMany(n)
          /\ searchCalls' = searchCalls + 1
          /\ \E resp \in SearchResponses :
                /\ searchStatus' = resp.status
                /\ IF resp.transport
                   THEN /\ Raise("SearchTransportError")
                        /\ urls' = urls
                   ELSE IF resp.hits < 0
                   THEN /\ Raise("SearchBodyError")
                        /\ urls' = urls
                   ELSE /\ urls' = PreviewUrls(resp.hits)
                        /\ pc' = "create_tasks"
                        /\ error' = error
    /\ UNCHANGED <<botVars, formatterVars, caller, n, inflight, results, overtaken,
                   fetchesStarted, requests, images, collageVars, replies>>

\* download_images: one download_image coroutine per url, all handed to gather
CreateTasks ==
    /\ pc = "create_tasks"
    /\ inflight' = 1..Len(urls)
    /\ results' = [i \in 1..Len(urls) |-> Pending]
    /\ fetchesStarted' = fetchesStarted + Len(urls)
    /\ requests' = [i \in 1..Len(urls) |-> 1]
    /\ pc' = "gather"
    /\ UNCHANGED <<botVars, formatterVars, caller, error, n, searchCalls, searchStatus,
                   urls, overtaken, images, collageVars, replies>>

EmptyBody == [kind |-> "empty", w |-> 0, h |-> 0]

\* what one fetch can meet: session.get or resp.read raises (timeout, transport
\* error), or a response with a status and a body
FetchOutcomes ==
    {[raises |-> e, status |-> 0, body |-> EmptyBody] : e \in {"Timeout", "TransportError"}}
        \cup {[raises |-> "none", status |-> StatusBad, body |-> EmptyBody]}
        \cup {[raises |-> "none", status |-> StatusOk, body |-> b] : b \in Bodies}

\* download_image(url) on a response: None for a status other than 200, otherwise
\* the body in a BytesIO whatever it holds
DownloadResult(url, o) ==
    IF o.raises # "none" THEN RaisedResult
    ELSE IF o.status # StatusOk THEN NoneResult
    ELSE [st |-> "buf", buf |-> Buffer(url, o.body.kind, o.body.w, o.body.h)]

\* results collected as the tasks complete: the first slot still empty
CompletionSlot(i) == MinOf({j \in 1..Len(results) : results[j].st = "pending"})

\* gather stores the result of task i in slot i
ResultSlot(i) == i

\* download_image with a retry: after a status other than 200 the request is
\* issued once more and the task keeps running
DownloadImageRetry ==
    /\ pc = "gather"
    /\ \E i \in inflight, o \in FetchOutcomes :
          IF o.raises = "none" /\ o.status # StatusOk
          THEN /\ requests' = [requests EXCEPT ![i] = @ + 1]
               /\ fetchesStarted' = fetchesStarted + 1
               /\ UNCHANGED <<inflight, results, overtaken, pc, error>>
          ELSE /\ inflight' = inflight \ {i}
               /\ results' = [results EXCEPT ![ResultSlot(i)] = DownloadResult(urls[i], o)]
               /\ overtaken' = (overtaken \/ \E j \in inflight : j < i)
               /\ IF o.raises # "none"
                  THEN Raise(o.raises)
                  ELSE UNCHANGED <<pc, error>>
               /\ UNCHANGED <<fetchesStarted, requests>>
    /\ UNCHANGED <<botVars, formatterVars, caller, n, searchCalls, searchStatus, urls,
                   images, collageVars, replies>>

\* one download_image task completes, in any order; an exception it raises is not
\* caught in download_image and gather hands the first one to download_images,
\* which no longer looks at the tasks still running
DownloadImage ==
    /\ pc = "gather"
    /\ \E i \in inflight, o \in FetchOutcomes :
          /\ inflight' = inflight \ {i}
          /\ results' = [results EXCEPT ![ResultSlot(i)] = DownloadResult(urls[i], o)]
          /\ overtaken' = (overtaken \/ \E j \in inflight : j < i)
          /\ IF o.raises # "none"
             THEN Raise(o.raises)
             ELSE UNCHANGED <<pc, error>>
    /\ UNCHANGED <<botVars, formatterVars, caller, n, searchCalls, searchStatus, urls,
                   fetchesStarted, requests, images, collageVars, replies>>

\* [img for img in results if img is not None]
RECURSIVE FilterResults(_)
FilterResults(rs) ==
    IF rs = <<>> THEN <<>>
    ELSE IF Head(rs).st # "none" THEN <<Head(rs).buf>> \o FilterResults(Tail(rs))
         ELSE FilterResults(Tail(rs))

\* gather returns once every task has returned; download_images filters the None
GatherReturn ==
    /\ pc = "gather"
    /\ inflight = {}
    /\ images' = FilterResults(results)
    /\ pc' = "returned"
    /\ UNCHANGED <<botVars, formatterVars, caller, error, n, searchCalls, searchStatus,
                   urls, inflight, results, overtaken, fetchesStarted, requests, collageVars,
                   replies>>

(***************************************************************************)
(* The callers after download_images has returned.                         *)
(***************************************************************************)
\* the handler without its `if images:`
HandlerBranchNoGuard ==
    /\ pc = "returned"
    /\ caller = "handler"
    /\ collageCalls' = collageCalls + 1
    /\ pc' = "make_collage"
    /\ UNCHANGED <<botVars, formatterVars, caller, error, downloadVars, prepared, heap,
                   column_images, placed, canvas, replies>>

\* _handle_message: `if images:` make_collage(images), else the placeholder image
HandlerBranch ==
    /\ pc = "returned"
    /\ caller = "handler"
    /\ IF images # <<>>
       THEN /\ collageCalls' = collageCalls + 1
            /\ pc' = "make_collage"
            /\ canvas' = canvas
       ELSE /\ canvas' = Placeholder
            /\ pc' = "encode"
            /\ collageCalls' = collageCalls
    /\ UNCHANGED <<botVars, formatterVars, caller, error, downloadVars, prepared, heap,
                   column_images, placed, replies>>

\* example(): the `async with` block ends, which closes the session, and
\* make_collage is called with whatever download_images returned
ExampleCompose ==
    /\ pc = "returned"
    /\ caller = "example"
    /\ AExit
    /\ phase' = "shutdown"
    /\ collageCalls' = collageCalls + 1
    /\ pc' = "make_collage"
    /\ UNCHANGED <<entry, downloader, formatterVars, caller, error, downloadVars, prepared,
                   heap, column_images, placed, canvas, replies>>

\* example(): an exception of download_images leaves the `async with` block, whose
\* __aexit__ closes the session
ExampleAbort ==
    /\ pc = "raised"
    /\ caller = "example"
    /\ session = "open"
    /\ AExit
    /\ phase' = "shutdown"
    /\ UNCHANGED <<entry, downloader, formatterVars, caller, pc, error, downloadVars,
                   collageVars, replies>>

(***************************************************************************)
(* ImagesFormatter.make_collage (src/images_processing.py).                *)
(***************************************************************************)
\* _resize_to_column_width: new_height = int(h * (column_width / w)); for the sizes
\* of the model the float product truncates to the integer quotient
ResizedHeight(w, h) == (h * column_width) \div w

\* Image.open(img) succeeds on the bytes of an image only
Decodable(buf) == buf.kind = "image"

\* the (height, column_index) pairs of a fresh heap
InitialHeap == {<<0, i>> : i \in Columns}

\* a max-heap: the tallest column is popped
HeapMaxFirst(hp) ==
    CHOOSE p \in hp : \A q \in hp : p[1] > q[1] \/ (p[1] = q[1] /\ p[2] <= q[2])

\* ties between equal heights broken by the highest column index
HeapMinHighIndex(hp) ==
    CHOOSE p \in hp : \A q \in hp : p[1] < q[1] \/ (p[1] = q[1] /\ p[2] >= q[2])

\* the pair heapq.heappop returns: the smallest tuple, heights first, then indexes
HeapMin(hp) ==
    CHOOSE p \in hp : \A q \in hp : p[1] < q[1] \/ (p[1] = q[1] /\ p[2] <= q[2])

\* the gap left out of the tracked height
NewHeightNoGap(height, img_height) == height + img_height

\* new_height = height + img.height + self.gap
NewHeight(height, img_height) == height + img_height + gap

\* make_collage up to the placement loop: every buffer is opened and resized, the
\* heap and the column lists are created. Image.open raises on bytes that are no
\* image; a resize to height 0 is refused by some builds of the imaging library
\* and yields an image of height 0 in the others
Prepare ==
    /\ pc = "make_collage"
    /\ \/ /\ \E i \in 1..Len(images) : ~Decodable(images[i])
          /\ Raise("DecodeError")
          /\ UNCHANGED <<prepared, heap, column_images, placed>>
       \/ /\ \A i \in 1..Len(images) : Decodable(images[i])
          /\ \E i \in 1..Len(images) : ResizedHeight(images[i].w, images[i].h) = 0
          /\ Raise("ResizeError")
          /\ UNCHANGED <<prepared, heap, column_images, placed>>
       \/ /\ \A i \in 1..Len(images) : Decodable(images[i])
          /\ prepared' = [i \in 1..Len(images) |->
                            [url |-> images[i].url,
                             height |-> ResizedHeight(images[i].w, images[i].h)]]
          /\ heap' = InitialHeap
          /\ column_images' = [c \in Columns |-> <<>>]
          /\ placed' = 0
          /\ pc' = "place"
          /\ error' = error
    /\ UNCHANGED <<botVars, formatterVars, caller, downloadVars, collageCalls, canvas,
                   replies>>

\* the column list assigned instead of appended to: its earlier images are lost
PlaceOverwrite ==
    /\ pc = "place"
    /\ placed < Len(prepared)
    /\ LET img == prepared[placed + 1]
           top == HeapMin(heap)
           height == top[1]
           idx == top[2]
       IN  /\ column_images' = [column_images EXCEPT ![idx] = <<placed + 1>>]
           /\ heap' = (heap \ {top}) \cup {<<NewHeight(height, img.height), idx>>}
    /\ placed' = placed + 1
    /\ UNCHANGED <<botVars, formatterVars, caller, pc, error, downloadVars, collageCalls,
                   prepared, canvas, replies>>

\* one iteration of `for img in prepared`: pop the smallest pair, append the image
\* to that column, push the pair back with the new height
Place ==
    /\ pc = "place"
    /\ placed < Len(prepared)
    /\ LET img == prepared[placed + 1]
           top == HeapMin(heap)
           height == top[1]
           idx == top[2]
       IN  /\ column_images' = [column_images EXCEPT ![idx] = Append(@, placed + 1)]
           /\ heap' = (heap \ {top}) \cup {<<NewHeight(height, img.height), idx>>}
    /\ placed' = placed + 1
    /\ UNCHANGED <<botVars, formatterVars, caller, pc, error, downloadVars, collageCalls,
                   prepared, canvas, replies>>

\* the heights of the images of a column, in the column's order
ColumnImageHeights(col) == [k \in 1..Len(col) |-> prepared[col[k]].height]

\* one gap per image, the leading gap forgotten
ColumnHeightNoLeadingGap(col) ==
    SumSeq(ColumnImageHeights(col)) + gap * Len(col)

\* sum(img.height for img in col) + self.gap * max(len(col) + 1, 0)
ColumnHeight(col) ==
    SumSeq(ColumnImageHeights(col)) + gap * MaxOf({Len(col) + 1, 0})

\* gaps between the columns only, none at the two borders
TotalWidthGapsBetween == columns_count * column_width + gap * (columns_count - 1)

\* self.columns_count * self.column_width + self.gap * (self.columns_count + 1)
TotalWidth == columns_count * column_width + gap * (columns_count + 1)

\* the stride of the columns without the gap
PasteXNoGapStride(col_idx) == col_idx * column_width + gap

\* x = col_idx * (self.column_width + self.gap) + self.gap
PasteX(col_idx) == col_idx * (column_width + gap) + gap

\* the cursor started at 0 instead of the gap
PasteYFromZero(col, k) ==
    SumSeq([j \in 1..(k - 1) |-> prepared[col[j]].height + gap])

\* the y of the k-th paste of a column: y = self.gap, then y += img.height + self.gap
\* after each paste
PasteY(col, k) ==
    gap + SumSeq([j \in 1..(k - 1) |-> prepared[col[j]].height + gap])

\* make_collage after the loop: the column heights, the canvas and the pastes
Finish ==
    /\ pc = "place"
    /\ placed = Len(prepared)
    /\ LET column_heights == [c \in Columns |-> ColumnHeight(column_images[c])]
           total_height == MaxOf({column_heights[c] : c \in Columns})
       IN  canvas' =
             [kind |-> "collage",
              width |-> TotalWidth,
              height |-> total_height,
              column_heights |-> column_heights,
              pastes |-> {[img |-> column_images[c][k], col |-> c, x |-> PasteX(c),
                           y |-> PasteY(column_images[c], k),
                           h |-> prepared[column_images[c][k]].height] :
                            <<c, k>> \in {ck \in Columns \X (1..Len(prepared)) :
                                            ck[2] <= Len(column_images[ck[1]])}},
              cursor_y |-> [c \in Columns |->
                              PasteY(column_images[c], Len(column_images[c]) + 1)]]
    /\ pc' = "encode"
    /\ UNCHANGED <<botVars, formatterVars, caller, error, downloadVars, collageCalls,
                   prepared, heap, column_images, placed, replies>>

(***************************************************************************)
(* The sinks.                                                              *)
(***************************************************************************)
\* _handle_message: the image is saved as JPEG and sent with reply_photo
Reply ==
    /\ pc = "encode"
    /\ caller = "handler"
    /\ replies' = replies + 1
    /\ pc' = "done"
    /\ UNCHANGED <<botVars, formatterVars, caller, error, downloadVars, collageVars>>

\* example(): collage.show()
Show ==
    /\ pc = "encode"
    /\ caller = "example"
    /\ pc' = "done"
    /\ UNCHANGED <<botVars, formatterVars, caller, error, downloadVars, collageVars,
                   replies>>

Next ==
    \/ Start
    \/ Stop
    \/ HandleMessage
    \/ ExampleBegin
    \/ FetchImageUrls
    \/ CreateTasks
    \/ DownloadImage
    \/ GatherReturn
    \/ HandlerBranch
    \/ ExampleCompose
    \/ ExampleAbort
    \/ Prepare
    \/ Place
    \/ Finish
    \/ Reply
    \/ Show

Spec == Init /\ [][Next]_vars

(***************************************************************************)
(* make_collage as a function: a formatter constructed with any parameters *)
(* of the model, called with any list of at most MaxImages buffers.        *)
(***************************************************************************)
\* the lists of at most len buffers, the i-th one read from url i
ImageLists(len) ==
    UNION {[1..k -> Bodies] : k \in 0..len}

InitCollage ==
    /\ entry = "call"
    /\ phase = "built"
    /\ downloader = "None"
    /\ session = "unset"
    /\ opens = 0
    /\ closes = 0
    /\ columns_count \in ColumnsCounts
    /\ column_width \in ColumnWidths
    /\ gap \in Gaps
    /\ caller = "call"
    /\ pc = "make_collage"
    /\ error = "none"
    /\ n = 0
    /\ searchCalls = 0
    /\ searchStatus = 0
    /\ urls = <<>>
    /\ inflight = {}
    /\ results = <<>>
    /\ overtaken = FALSE
    /\ fetchesStarted = 0
    /\ requests = <<>>
    /\ \E bodies \in ImageLists(MaxImages) :
          images = [i \in 1..Len(bodies) |->
                      Buffer(i, bodies[i].kind, bodies[i].w, bodies[i].h)]
    /\ collageCalls = 1
    /\ prepared = <<>>
    /\ heap = {}
    /\ column_images = <<>>
    /\ placed = 0
    /\ canvas = NoCanvas
    /\ replies = 0

NextCollage ==
    \/ Prepare
    \/ Place
    \/ Finish

SpecCollage == InitCollage /\ [][NextCollage]_vars


(***************************************************************************)
(* Properties.                                                             *)
(***************************************************************************)
RECURSIVE IsSubsequence(_, _)
IsSubsequence(s, t) ==
    IF s = <<>> THEN TRUE
    ELSE IF t = <<>> THEN FALSE
    ELSE IF Head(s) = Head(t) THEN IsSubsequence(Tail(s), Tail(t))
    ELSE IsSubsequence(s, Tail(t))

ImageUrls(imgs) == [i \in 1..Len(imgs) |-> imgs[i].url]

RECURSIVE SucceededBuffers(_)
SucceededBuffers(rs) ==
    IF rs = <<>> THEN <<>>
    ELSE IF Head(rs).st = "buf" THEN <<Head(rs).buf>> \o SucceededBuffers(Tail(rs))
         ELSE SucceededBuffers(Tail(rs))

FetchErrors == {"Timeout", "TransportError"}
CollageErrors == {"DecodeError", "ResizeError"}

TrackedHeights == {p[1] : p \in heap}
Spread == MaxOf(TrackedHeights) - MinOf(TrackedHeights)

\* C1: whatever the failure kind of an image fetch (non-success status, timeout,
\* transport error) and however many fetches fail, no error of a fetch reaches the
\* caller of download_images, and the list it returns holds exactly the buffers of
\* the fetches that succeeded (the empty list when all failed).
C1_FetchFailuresAbsorbed ==
    /\ ~(pc = "raised" /\ error \in FetchErrors)
    /\ pc = "returned" => images = SucceededBuffers(results)

\* C2: in whatever order the fetches complete, the list download_images returns
\* is a subsequence of the resolved URL list: the buffers keep the relative order
\* of their source URLs.
C2_OrderPreserved ==
    IsSubsequence(ImageUrls(images), urls)

C2_Witness ==
    /\ pc = "returned"
    /\ overtaken
    /\ Len(images) >= 2
    /\ Len(images) < Len(urls)

\* C3: with a requested count above 200, fetch_image_urls fails before any network
\* call, and in that invocation no image fetch is started and make_collage is not
\* invoked.
C3_TooManyRejectedFirst ==
    (caller # "none" /\ n > MaxPerPage) =>
        /\ searchCalls = 0
        /\ fetchesStarted = 0
        /\ inflight = {}
        /\ collageCalls = 0
        /\ pc \in {"fetch_image_urls", "raised"}
        /\ pc = "raised" => error = "TooManyRequested"

C3_Witness ==
    /\ pc = "raised"
    /\ n = MaxPerPage + 1
    /\ error = "TooManyRequested"
    /\ searchCalls = 0

\* C4: make_collage called with an empty image list fails with an InvalidArgument
\* error instead of returning a canvas.
C4_EmptyListRejected ==
    (collageCalls > 0 /\ images = <<>>) =>
        /\ canvas.kind # "collage"
        /\ pc = "raised" => error = "InvalidArgument"

\* C5 as stated: in every handling of a message, zero images make the handler
\* substitute the placeholder without invoking make_collage, make_collage is
\* invoked only with a non-empty list, and in both cases exactly one photo reply
\* is sent.
C5_AlwaysOneReply ==
    caller = "handler" =>
        /\ collageCalls > 0 => images # <<>>
        /\ (pc \in {"encode", "done"} /\ images = <<>>) =>
              (collageCalls = 0 /\ canvas = Placeholder)
        /\ (pc = "done" \/ (pc = "raised" /\ error \in CollageErrors)) => replies = 1

\* C5 amended: in every handling of a message, zero images make the handler
\* substitute the placeholder without invoking make_collage, make_collage is
\* invoked only with a non-empty list, and at most once; exactly one photo reply
\* is sent when the placeholder is substituted or make_collage returns a canvas,
\* and none when make_collage raises.
C5_OneReplyUnlessCollageRaises ==
    caller = "handler" =>
        /\ collageCalls > 0 => images # <<>>
        /\ collageCalls <= 1
        /\ (pc \in {"encode", "done"} /\ images = <<>>) =>
              (collageCalls = 0 /\ canvas = Placeholder)
        /\ (pc \in {"encode", "done"} /\ images # <<>>) =>
              (collageCalls = 1 /\ canvas.kind = "collage")
        /\ pc = "done" => replies = 1
        /\ pc # "done" => replies = 0
        /\ (pc = "raised" /\ error \in CollageErrors) => (collageCalls = 1 /\ images # <<>>)

C5_Witness ==
    /\ caller = "handler"
    /\ pc = "done"
    /\ fetchesStarted >= 2
    /\ images = <<>>
    /\ canvas = Placeholder
    /\ collageCalls = 0
    /\ replies = 1

\* C6 as stated: after each image is placed, the difference between the tallest
\* and the shortest tracked column height is at most the height of the image just
\* placed.
C6_SpreadWithinLastImage ==
    (pc = "place" /\ placed >= 1) => Spread <= prepared[placed].height

\* C6 amended: after each image is placed, the difference between the tallest and
\* the shortest tracked column height is at most the largest height + gap among
\* the images placed so far.
C6_SpreadWithinLargestStep ==
    (pc = "place" /\ placed >= 1) =>
        Spread <= MaxOf({prepared[j].height + gap : j \in 1..placed})

C6_Witness ==
    /\ pc = "place"
    /\ placed >= 2
    /\ columns_count >= 2
    /\ Spread > prepared[placed].height + gap
    /\ Spread = MaxOf({prepared[j].height + gap : j \in 1..placed})

OnePerColumnInOrder ==
    \A i \in 1..columns_count : column_images[i - 1] = <<i>>

C8_AtMostCount ==
    (caller # "none" /\ n \in 1..MaxPerPage) => Len(urls) <= n

\* C9: a requested count below 1 is rejected by fetch_image_urls before any
\* network call is issued.
C9_BelowOneRejected ==
    (caller # "none" /\ n < 1) =>
        /\ searchCalls = 0
        /\ pc \in {"fetch_image_urls", "raised"}

\* C10: a fetch answered with a success status and an empty body counts as failed:
\* download_image yields no buffer for it and download_images omits it.
C10_EmptyBodyOmitted ==
    /\ \A i \in 1..Len(results) : results[i].st = "buf" => results[i].buf.kind # "empty"
    /\ \A i \in 1..Len(images) : images[i].kind # "empty"

\* C11: when the search API call gets a non-success response or fails in
\* transport, fetch_image_urls fails and the invocation is aborted: no image fetch
\* is started and no image list is produced, whatever the body of the response.
C11_SearchFailureAborts ==
    (caller # "none" /\ searchCalls > 0 /\ searchStatus # StatusOk) =>
        /\ pc = "raised"
        /\ error \in {"SearchTransportError", "SearchBodyError"}
        /\ fetchesStarted = 0
        /\ inflight = {}
        /\ images = <<>>

\* C12: over any sequence of start, message handlings (successful or failing) and
\* stop, the session is opened exactly once, by start; every invocation issues its
\* requests while that session is open; stop closes it exactly once, also after a
\* failed handling, and a repeated stop changes nothing.
C12_SessionOpenedAndClosedOnce ==
    entry = "bot" =>
        /\ phase = "built" =>
              (opens = 0 /\ closes = 0 /\ session = "unset" /\ downloader = "None")
        /\ phase = "polling" =>
              (opens = 1 /\ closes = 0 /\ session = "open" /\ downloader = "set")
        /\ phase = "shutdown" =>
              (opens = 1 /\ closes = 1 /\ session = "closed" /\ downloader = "None")
        /\ (caller = "handler" /\ pc \in {"fetch_image_urls", "create_tasks", "gather"}) =>
              session = "open"
        /\ (searchCalls > 0 \/ fetchesStarted > 0) => opens = 1

C12_Witness ==
    /\ entry = "bot"
    /\ phase = "shutdown"
    /\ caller = "handler"
    /\ pc = "raised"
    /\ error \in FetchErrors
    /\ opens = 1
    /\ closes = 1
    /\ session = "closed"

\* the images of column c as make_collage left them, and the height the heap
\* tracks for the column
ColumnOf(c) == column_images[c]
HeightOf(p) == prepared[p].height
Tracked(c) == (CHOOSE p \in heap : p[2] = c)[1]

\* gap + the sum of (image height + gap) over the images of a column
LeadingGapPlusSteps(col) ==
    gap + SumSeq([k \in 1..Len(col) |-> HeightOf(col[k]) + gap])

\* C13: for every non-empty image list, the canvas height make_collage computes is
\* the maximum over the columns of gap + the sum of (image height + gap) over the
\* column's images, a column without images contributing gap.
C13_CanvasHeight ==
    (canvas.kind = "collage" /\ images # <<>>) =>
        canvas.height = MaxOf({LeadingGapPlusSteps(ColumnOf(c)) : c \in Columns})

C13_Witness ==
    /\ canvas.kind = "collage"
    /\ gap > 0
    /\ \E c \in Columns : Len(ColumnOf(c)) >= 2
    /\ \E c \in Columns : LeadingGapPlusSteps(ColumnOf(c)) < canvas.height
    /\ canvas.height > gap

\* C14: for every layout configuration and every non-empty image list, the canvas
\* width is columns_count * column_width + gap * (columns_count + 1), whatever the
\* images and their assignment to columns.
C14_CanvasWidth ==
    (canvas.kind = "collage" /\ images # <<>>) =>
        canvas.width = columns_count * column_width + gap * (columns_count + 1)

C14_Witness ==
    /\ canvas.kind = "collage"
    /\ Len(images) >= 2
    /\ columns_count >= 2
    /\ gap > 0
    /\ canvas.width = columns_count * column_width + gap * (columns_count + 1)

\* C15: at every step of the placement loop the next image in input order is
\* appended to a column whose tracked height is minimal, the lowest-indexed one
\* among those tied; that column's tracked height grows by exactly image height +
\* gap, and no other column's list or tracked height changes.
C15_GreedyStep ==
    [][(pc = "place" /\ placed' = placed + 1) =>
         \E c \in Columns :
            /\ \A d \in Columns :
                  Tracked(c) < Tracked(d) \/ (Tracked(c) = Tracked(d) /\ c <= d)
            /\ column_images'[c] = Append(column_images[c], placed + 1)
            /\ Tracked(c)' = Tracked(c) + HeightOf(placed + 1) + gap
            /\ \A d \in Columns \ {c} :
                  /\ column_images'[d] = column_images[d]
                  /\ Tracked(d)' = Tracked(d)]_vars

C15_Witness ==
    /\ pc = "place"
    /\ placed >= 3
    /\ columns_count >= 2
    /\ gap > 0
    /\ \E c \in Columns : c > 0 /\ Len(ColumnOf(c)) >= 2
    /\ \E c, d \in Columns : c # d /\ Tracked(c) = Tracked(d)

\* C16: one call of download_images that resolves k references issues exactly one
\* request to the search API and exactly one fetch per reference, k + 1 requests in
\* all, whether the fetches succeed or fail: none is fetched twice, none retried.
C16_OneRequestPerReference ==
    (\/ pc \in {"gather", "returned"}
     \/ pc = "raised" /\ error \in FetchErrors) =>
        /\ searchCalls = 1
        /\ Len(requests) = Len(urls)
        /\ \A i \in 1..Len(urls) : requests[i] = 1
        /\ fetchesStarted = Len(urls)
        /\ searchCalls + fetchesStarted = Len(urls) + 1

C16_Witness ==
    /\ pc = "returned"
    /\ Len(urls) >= 2
    /\ \E i \in 1..Len(results) : results[i].st = "none"
    /\ \E i \in 1..Len(results) : results[i].st = "buf"
    /\ searchCalls + fetchesStarted = Len(urls) + 1

\* the places (column, rank in the column) at which image p of the input stands
PlacesOf(p) ==
    {ck \in Columns \X (1..Len(prepared)) :
        ck[2] <= Len(ColumnOf(ck[1])) /\ ColumnOf(ck[1])[ck[2]] = p}

LoopDone == (pc = "place" /\ placed = Len(prepared)) \/ canvas.kind = "collage"

\* C17: after the placement loop every input image is in exactly one column exactly
\* once (the column sizes sum to the number of input images), and within each
\* column the images stand in their input order.
C17_EveryImagePlacedOnce ==
    LoopDone =>
        /\ Len(prepared) = Len(images)
        /\ \A p \in 1..Len(images) :
              /\ prepared[p].url = images[p].url
              /\ Cardinality(PlacesOf(p)) = 1
        /\ SumSeq([i \in 1..columns_count |-> Len(ColumnOf(i - 1))]) = Len(images)
        /\ \A c \in Columns : \A k \in 1..(Len(ColumnOf(c)) - 1) :
              ColumnOf(c)[k] < ColumnOf(c)[k + 1]

C17_Witness ==
    /\ pc = "place"
    /\ placed = Len(prepared)
    /\ Len(images) = MaxImages
    /\ columns_count >= 2
    /\ \E c \in Columns : Len(ColumnOf(c)) >= 2
    /\ \A c \in Columns : Len(ColumnOf(c)) >= 1

\* C18: the three height accountings of make_collage agree for every column: the
\* height tracked in the heap plus one leading gap, the column total computed
\* after placement, and the paste cursor y after the column's last paste.
C18_HeightAccountingsAgree ==
    canvas.kind = "collage" =>
        \A c \in Columns :
            /\ Tracked(c) + gap = canvas.column_heights[c]
            /\ canvas.column_heights[c] = canvas.cursor_y[c]

C18_Witness ==
    /\ canvas.kind = "collage"
    /\ gap > 0
    /\ \E c \in Columns : Len(ColumnOf(c)) >= 2 /\ canvas.cursor_y[c] = Tracked(c) + gap
    /\ \E c, d \in Columns : canvas.column_heights[c] # canvas.column_heights[d]

\* C19: every pasted image lies inside the canvas with a margin of gap, and no two
\* pasted images overlap: those of one column occupy vertical ranges separated by
\* gap, those of different columns horizontal ranges separated by gap.
C19_PastesInsideAndDisjoint ==
    canvas.kind = "collage" =>
        /\ Cardinality(canvas.pastes) = Len(prepared)
        /\ \A p \in canvas.pastes :
              /\ p.x >= gap
              /\ p.x + column_width <= canvas.width - gap
              /\ p.y >= gap
              /\ p.y + p.h <= canvas.height - gap
        /\ \A p, q \in canvas.pastes :
              p # q =>
                 IF p.col = q.col
                 THEN p.y + p.h + gap <= q.y \/ q.y + q.h + gap <= p.y
                 ELSE p.x + column_width + gap <= q.x \/ q.x + column_width + gap <= p.x

C19_Witness ==
    /\ canvas.kind = "collage"
    /\ gap > 0
    /\ \E p, q \in canvas.pastes : p # q /\ p.col = q.col /\ p.h > 0 /\ q.h > 0
    /\ \E p, q \in canvas.pastes : p.col # q.col
    /\ \E p \in canvas.pastes : p.y + p.h = canvas.height - gap

=============================================================================
